---------------------------- MODULE Spec2Model ----------------------------
(***************************************************************************)
(* Model of proxyChecker.py: check_proxies reads a list file, keeps the    *)
(* lines Proxy.is_valid accepts, probes each one in its own thread         *)
(* (Proxy.check), joins every thread and overwrites the list file with the *)
(* proxies whose probe returned success.                                   *)
(*                                                                         *)
(* Model of proxyScraper.py: scrape picks the source adapters of a method, *)
(* runs their fetches as tasks of one asyncio.gather and writes the        *)
(* addresses found to the output file.                                     *)
(*                                                                         *)
(* Strings are sequences of one-character strings, so that strip, split,   *)
(* int and the regular expression of is_valid are computed, not assumed.   *)
(***************************************************************************)
EXTENDS Integers, Sequences, FiniteSets, TLC

VARIABLES
    file,           \* content of the list file (args.list), a string
    method,         \* args.proxy
    site,           \* args.site
    mpc,            \* position of the main thread inside check_proxies
    proxies,        \* local list `proxies` of check_proxies
    threads,        \* local list `threads`: one record per threading.Thread
    idx,            \* index of the for loop the main thread is in
    valid_proxies,  \* list shared by the check_proxy closures
    default_proxy,  \* socks.socksocket.default_proxy (process wide)
    socket_socket,  \* the class bound to socket.socket (process wide)
    opener,         \* urllib.request._opener (process wide)
    run,            \* 1 in the first execution of the program, 2 in the second
    random_user_agent, \* args.random_agent
    user_agents,    \* the module's list `user_agents`, read from user_agents.txt
    candidate,      \* the string a Proxy is built on when is_valid is called alone
    verdict,        \* <<>> before that call, then <<what is_valid returned>>
    scrape_method,  \* args.proxy of proxyScraper.py
    output,         \* content of the output file of proxyScraper.py
    sources,        \* what the source of each adapter does with a fetch
    spc,            \* position of proxyScraper.py and of its coroutine scrape
    scrapers,       \* the module's list `scrapers`
    tasks,          \* the coroutines handed to asyncio.gather
    scraped         \* local list `proxies` of scrape

\* the state of check_proxies and of the modules it uses
checker_vars == <<file, method, site, mpc, proxies, threads, idx, valid_proxies,
                  default_proxy, socket_socket, opener, run,
                  random_user_agent, user_agents>>

\* the state of a call of Proxy.is_valid outside check_proxies
validator_vars == <<candidate, verdict>>

\* the state of proxyScraper.py
scraper_vars == <<scrape_method, output, sources, spc, scrapers, tasks, scraped>>

\* what no step of check_proxies touches
outside_checker == <<validator_vars, scraper_vars>>

vars == <<checker_vars, validator_vars, scraper_vars>>

---------------------------------------------------------------------------
(* Bounds of the model *)

\* most lines in the list file of the first execution
MaxLines == 2

---------------------------------------------------------------------------
(* Strings *)

Digit == {"0", "1", "2", "3", "4", "5", "6", "7", "8", "9"}

\* \d in a str pattern is any Unicode decimal digit, not only 0-9; "u0663"
\* stands for the one character ARABIC-INDIC DIGIT THREE
RegexDigit == Digit \cup {"u0663"}

\* str.strip() with no argument removes these
Whitespace == {" ", "\t", "\n", "\r", "\f"}

NoneValue == "None"

RECURSIVE lstrip(_)
lstrip(s) == IF s # <<>> /\ Head(s) \in Whitespace THEN lstrip(Tail(s)) ELSE s

RECURSIVE rstrip(_)
rstrip(s) ==
    IF s # <<>> /\ s[Len(s)] \in Whitespace
    THEN rstrip(SubSeq(s, 1, Len(s) - 1))
    ELSE s

strip(s) == rstrip(lstrip(s))

\* position of the first c in s at or after position p, Len(s) + 1 if none
RECURSIVE find(_, _, _)
find(s, c, p) ==
    IF p > Len(s) THEN Len(s) + 1
    ELSE IF s[p] = c THEN p
    ELSE find(s, c, p + 1)

\* str.split(c): the pieces of s between the occurrences of c
RECURSIVE split(_, _)
split(s, c) ==
    LET p == find(s, c, 1) IN
    IF p > Len(s) THEN <<s>>
    ELSE <<SubSeq(s, 1, p - 1)>> \o split(SubSeq(s, p + 1, Len(s)), c)

\* iteration over a text file: the lines, each with its "\n" when it has one
RECURSIVE readlines(_)
readlines(s) ==
    IF s = <<>> THEN <<>>
    ELSE LET p == find(s, "\n", 1) IN
         IF p > Len(s) THEN <<s>>
         ELSE <<SubSeq(s, 1, p)>> \o readlines(SubSeq(s, p + 1, Len(s)))

DigitValue(c) ==
    CASE c = "0" -> 0 [] c = "1" -> 1 [] c = "2" -> 2 [] c = "3" -> 3
      [] c = "4" -> 4 [] c = "5" -> 5 [] c = "6" -> 6 [] c = "7" -> 7
      [] c = "8" -> 8 [] c = "9" -> 9 [] c = "u0663" -> 3

\* int(s) for a string of decimal digits
RECURSIVE int(_)
int(s) ==
    IF s = <<>> THEN 0
    ELSE 10 * int(SubSeq(s, 1, Len(s) - 1)) + DigitValue(s[Len(s)])

\* str.lower() on the protocol names the model uses
lower(m) ==
    CASE m = "HTTP" -> "http"
      [] m = "HTTPS" -> "https"
      [] m = "SOCKS4" -> "socks4"
      [] m = "SOCKS5" -> "socks5"
      [] OTHER -> m

---------------------------------------------------------------------------
(* Proxy.is_valid: re.match(r"^\d{1,3}(?:\.\d{1,3}){3}:\d{1,5}$", proxy)   *)
(* The match is computed on sets of positions: P holds the positions the   *)
(* pattern read so far can end before.                                     *)

\* \d{lo,hi}
ReDigits(s, P, lo, hi) ==
    {p + n : <<p, n>> \in
        {pn \in P \X (lo..hi) :
            /\ pn[1] + pn[2] - 1 <= Len(s)
            /\ \A k \in pn[1]..(pn[1] + pn[2] - 1) : s[k] \in RegexDigit}}

\* a literal character
ReChar(s, P, c) == {p + 1 : p \in {q \in P : q <= Len(s) /\ s[q] = c}}

\* (?:\.\d{1,3})
ReGroup(s, P) == ReDigits(s, ReChar(s, P, "."), 1, 3)

\* $ matches at the end of the string and before a newline that ends it
ReEnd(s, P) ==
    \E p \in P : p = Len(s) + 1 \/ (p = Len(s) /\ s[p] = "\n")

is_valid(proxy) ==
    LET P1 == ReDigits(proxy, {1}, 1, 3)
        P2 == ReGroup(proxy, ReGroup(proxy, ReGroup(proxy, P1)))
        P3 == ReDigits(proxy, ReChar(proxy, P2, ":"), 1, 5)
    IN  ReEnd(proxy, P3)

---------------------------------------------------------------------------
(* The environment: proxy addresses, the list files tried, the network *)

AddrA == <<"1", ".", "1", ".", "1", ".", "1", ":", "1">>
AddrB == <<"2", ".", "2", ".", "2", ".", "2", ":", "2">>
AddrC == <<"3", ".", "3", ".", "3", ".", "3", ":", "3">>
AddrD == <<"4", ".", "4", ".", "4", ".", "4", ":", "4">>
\* three groups only: rejected by is_valid
AddrBad == <<"1", ".", "1", ".", "1", ":", "1">>

\* the lines a list file is made of; the fourth has blanks around the address
RawLines ==
    { AddrA \o <<"\n">>, AddrB \o <<"\n">>, AddrC \o <<"\n">>,
      <<" ">> \o AddrD \o <<" ", "\n">>, AddrBad \o <<"\n">> }

RECURSIVE FilesOf(_)
FilesOf(n) ==
    IF n = 0 THEN {<<>>}
    ELSE LET shorter == FilesOf(n - 1) IN
         shorter \cup {f \o l : f \in shorter, l \in RawLines}

InputFiles == FilesOf(MaxLines)

Methods == {"http", "https", "socks4", "SOCKS5", "ftp"}

Sites == {"http://example.com/", "https://example.com/"}

\* the scheme urllib reads from the target URL
scheme(url) ==
    CASE url = "http://example.com/" -> "http"
      [] url = "https://example.com/" -> "https"

Direct == [via |-> "direct", host |-> <<>>, port |-> 0]

\* default of --timeout, in seconds
Timeout == 20

\* What the network answers to a GET sent along a route, and the seconds
\* the exchange takes. It is a fixed function of the route: A answers 200,
\* B refuses the connection, C never answers (the timeout of the call
\* expires), D answers 404, and the target reached without a proxy answers
\* 200.
Transport(route) ==
    CASE route.via = "direct" ->
            [status |-> 200, error |-> NoneValue, seconds |-> 1]
      [] route.via # "direct" /\ route.host = split(AddrA, ":")[1] /\ route.port = 1 ->
            [status |-> 200, error |-> NoneValue, seconds |-> 2]
      [] route.via # "direct" /\ route.host = split(AddrD, ":")[1] /\ route.port = 4 ->
            [status |-> 404, error |-> NoneValue, seconds |-> 2]
      [] route.via # "direct" /\ route.host = split(AddrC, ":")[1] /\ route.port = 3 ->
            [status |-> 0, error |-> "timeout", seconds |-> Timeout]
      [] OTHER ->
            [status |-> 0, error |-> "ConnectionRefusedError", seconds |-> 0]

---------------------------------------------------------------------------
(* Proxy *)

SupportedMethods == {"http", "https", "socks4", "socks5"}

\* Proxy.__init__ raises NotImplementedError for any other method
ProxyInitRaises(m) == lower(m) \notin SupportedMethods

\* Proxy.__init__
Proxy(m, p) == [method |-> lower(m), proxy |-> p]

NoDefaultProxy == [type |-> NoneValue, addr |-> <<>>, port |-> 0]

NoOpener == [kind |-> NoneValue, scheme |-> NoneValue, hostport |-> <<>>]

\* build_opener() with no handler given: no proxy for any scheme
DefaultOpener == [kind |-> "default", scheme |-> NoneValue, hostport |-> <<>>]

\* build_opener(ProxyHandler({self.method: f"{self.method}://{self.proxy}"}))
ProxyOpener(self) == [kind |-> "proxy", scheme |-> self.method, hostport |-> self.proxy]

\* socks.set_default_proxy(SOCKS4 or SOCKS5, proxy_host, int(proxy_port))
SocksDefault(self) ==
    LET parts == split(self.proxy, ":") IN
    [type |-> IF self.method = "socks4" THEN "SOCKS4" ELSE "SOCKS5",
     addr |-> parts[1], port |-> int(parts[2])]

\* The route of the connection urlopen makes: the opener in force picks a
\* proxy for the scheme of the target or none, and the class bound to
\* socket.socket takes its SOCKS proxy from default_proxy when it is created.
RouteOf(op, sock, dflt, url) ==
    IF op.kind = "proxy" /\ op.scheme = scheme(url)
    THEN LET parts == split(op.hostport, ":") IN
         [via |-> "proxy", host |-> parts[1], port |-> int(parts[2])]
    ELSE IF sock = "socksocket" /\ dflt.type # NoneValue
    THEN [via |-> dflt.type, host |-> dflt.addr, port |-> dflt.port]
    ELSE Direct

\* a status is not looked at
UrlopenRaisesTransportOnly(answer) == answer.error

\* urlopen returns the response unless the exchange fails or the status is
\* not 2xx, when it raises (HTTPError for a status)
UrlopenRaises(answer) ==
    IF answer.error # NoneValue THEN answer.error
    ELSE IF ~(200 <= answer.status /\ answer.status < 300) THEN "HTTPError"
    ELSE NoneValue

\* what Proxy.check returns; time_taken is the difference of the two
\* readings of time(), the seconds the call of urlopen took
CheckReturn(raised, time_taken) ==
    IF raised = NoneValue
    THEN <<TRUE, time_taken, NoneValue>>
    ELSE <<FALSE, 0, raised>>

NoReturn == <<FALSE, 0, NoneValue>>

\* no timeout is given and a silent target is waited for without end
urlopen_without_timeout(answer) == answer.error # "timeout"

\* urlopen(..., timeout=timeout) ends for every answer of the network: with
\* the response, with the error, or with socket.timeout once the timeout
\* has expired on a target that stays silent
urlopen_returns(answer) == TRUE

\* a failure empties the list shared by the probes
check_proxy_append_or_reset(valid, proxy, ret) ==
    IF ret[1] THEN Append(valid, proxy) ELSE <<>>

\* the list is rebuilt from a copy taken before the siblings appended, and
\* their appends are lost
check_proxy_append_stale(valid, proxy, ret) ==
    IF ret[1] THEN <<proxy>> ELSE valid

\* an address already in the list is not appended again
check_proxy_append_if_new(valid, proxy, ret) ==
    IF ret[1] /\ proxy \notin {valid[i] : i \in DOMAIN valid}
    THEN Append(valid, proxy)
    ELSE valid

\* lines 75-76 of check_proxy; list.append is one atomic operation of the
\* interpreter
check_proxy_append(valid, proxy, ret) ==
    IF ret[1] THEN Append(valid, proxy) ELSE valid

\* threading.Thread(target=check_proxy, args=(proxy, user_agent)); calls
\* counts the calls of proxy.check the thread makes and check_user_agent is
\* the user agent it gives to proxy.check
Thread(proxy, user_agent) ==
    [proxy |-> proxy, user_agent |-> user_agent, pc |-> "created",
     calls |-> 0, check_user_agent |-> NoneValue, opener |-> NoOpener,
     route |-> Direct, ret |-> NoReturn]

---------------------------------------------------------------------------
(* The program *)

\* proxyScraper.py is not run
ScraperIdle ==
    /\ scrape_method = NoneValue
    /\ output = <<>>
    /\ sources = <<>>
    /\ spc = "none"
    /\ scrapers = <<>>
    /\ tasks = <<>>
    /\ scraped = <<>>

Init ==
    /\ file \in InputFiles
    /\ method \in Methods
    /\ site \in Sites
    /\ mpc = "read"
    /\ proxies = <<>>
    /\ threads = <<>>
    /\ idx = 1
    /\ valid_proxies = <<>>
    /\ default_proxy = NoDefaultProxy
    /\ socket_socket = "socket"
    /\ opener = NoOpener
    /\ run = 1
    /\ random_user_agent = FALSE
    /\ user_agents = <<"UA1">>
    /\ candidate = <<>>
    /\ verdict = <<>>
    /\ ScraperIdle

\* the entries are written one after the other with no newline
RECURSIVE written_run_together(_)
written_run_together(ps) ==
    IF ps = <<>> THEN <<>>
    ELSE Head(ps).proxy \o written_run_together(Tail(ps))

\* what f.write leaves in the file
RECURSIVE written(_)
written(ps) ==
    IF ps = <<>> THEN <<>>
    ELSE Head(ps).proxy \o <<"\n">> \o written(Tail(ps))

\* lines 63-65
Main_Read ==
    /\ mpc = "read"
    /\ LET lines == readlines(file) IN
       IF lines # <<>> /\ ProxyInitRaises(method)
       THEN /\ mpc' = "raised"
            /\ UNCHANGED proxies
       ELSE /\ proxies' = [i \in 1..Len(lines) |-> Proxy(method, strip(lines[i]))]
            /\ mpc' = "filter"
    /\ UNCHANGED <<file, method, site, threads, idx, valid_proxies,
                   default_proxy, socket_socket, opener, run>>
    /\ UNCHANGED <<random_user_agent, user_agents>>
    /\ UNCHANGED outside_checker

\* nothing is filtered out
AcceptedUnfiltered(x) == TRUE

\* the lambda of line 68
Accepted(x) == is_valid(x.proxy)

\* lines 67-69
Main_Filter ==
    /\ mpc = "filter"
    /\ proxies' = SelectSeq(proxies, Accepted)
    /\ valid_proxies' = <<>>
    /\ threads' = <<>>
    /\ idx' = 1
    /\ mpc' = "create"
    /\ UNCHANGED <<file, method, site, default_proxy, socket_socket, opener,
                   run>>
    /\ UNCHANGED <<random_user_agent, user_agents>>
    /\ UNCHANGED outside_checker

\* random.choice(user_agents): any element of the list
RandomChoice(pool) == {pool[i] : i \in DOMAIN pool}

\* line 80: both branches of the conditional expression are
\* random.choice(user_agents)
ThreadUserAgents(random, pool) ==
    IF random THEN RandomChoice(pool) ELSE RandomChoice(pool)

\* lines 72-73: with the random mode a new choice replaces the argument
CheckUserAgents(random, pool, user_agent) ==
    IF random THEN RandomChoice(pool) ELSE {user_agent}

\* lines 79-82, one iteration; random.choice raises IndexError on an empty
\* list
Main_Create ==
    /\ mpc = "create"
    /\ IF idx <= Len(proxies)
       THEN IF user_agents = <<>>
            THEN /\ mpc' = "raised"
                 /\ UNCHANGED <<threads, idx>>
            ELSE /\ \E ua \in ThreadUserAgents(random_user_agent, user_agents) :
                      threads' = Append(threads, Thread(proxies[idx], ua))
                 /\ idx' = idx + 1
                 /\ mpc' = mpc
       ELSE /\ idx' = 1
            /\ mpc' = "start"
            /\ UNCHANGED threads
    /\ UNCHANGED <<file, method, site, proxies, valid_proxies, default_proxy,
                   socket_socket, opener, run>>
    /\ UNCHANGED <<random_user_agent, user_agents>>
    /\ UNCHANGED outside_checker

\* lines 84-85, one iteration
Main_Start ==
    /\ mpc = "start"
    /\ IF idx <= Len(threads)
       THEN /\ threads' = [threads EXCEPT ![idx].pc = "started"]
            /\ idx' = idx + 1
            /\ mpc' = mpc
       ELSE /\ idx' = 1
            /\ mpc' = "join"
            /\ UNCHANGED threads
    /\ UNCHANGED <<file, method, site, proxies, valid_proxies, default_proxy,
                   socket_socket, opener, run>>
    /\ UNCHANGED <<random_user_agent, user_agents>>
    /\ UNCHANGED outside_checker

\* the main thread does not wait for a thread it has started
JoinableOnceStarted(t) == t.pc # "created"

\* t.join() returns once the thread has ended
Joinable(t) == t.pc = "ended"

\* lines 87-88, one iteration
Main_Join ==
    /\ mpc = "join"
    /\ IF idx <= Len(threads)
       THEN /\ Joinable(threads[idx])
            /\ idx' = idx + 1
            /\ mpc' = mpc
       ELSE /\ idx' = 1
            /\ mpc' = "write"
    /\ UNCHANGED <<file, method, site, proxies, threads, valid_proxies,
                   default_proxy, socket_socket, opener, run>>
    /\ UNCHANGED <<random_user_agent, user_agents>>
    /\ UNCHANGED outside_checker

\* lines 90-94
Main_Write ==
    /\ mpc = "write"
    /\ file' = written(valid_proxies)
    /\ mpc' = "done"
    /\ UNCHANGED <<method, site, proxies, threads, idx, valid_proxies,
                   default_proxy, socket_socket, opener, run>>
    /\ UNCHANGED <<random_user_agent, user_agents>>
    /\ UNCHANGED outside_checker

\* check_proxy up to the call of urlopen: lines 72-74, 31-34 and 37-43; an
\* http/https probe sends check_user_agent as its User-Agent header, a socks
\* probe does not use it
T_Prepare(k) ==
    /\ k \in DOMAIN threads
    /\ threads[k].pc = "started"
    /\ LET self == threads[k].proxy IN
       /\ IF self.method \in {"socks4", "socks5"}
          THEN /\ default_proxy' = SocksDefault(self)
               /\ socket_socket' = "socksocket"
               /\ UNCHANGED opener
          ELSE /\ opener' = ProxyOpener(self)
               /\ UNCHANGED <<default_proxy, socket_socket>>
       /\ \E ua \in CheckUserAgents(random_user_agent, user_agents,
                                     threads[k].user_agent) :
             threads' = [threads EXCEPT ![k].pc = "prepared",
                                        ![k].calls = @ + 1,
                                        ![k].check_user_agent = ua]
    /\ UNCHANGED <<file, method, site, mpc, proxies, idx, valid_proxies,
                   run>>
    /\ UNCHANGED <<random_user_agent, user_agents>>
    /\ UNCHANGED outside_checker

\* urlopen picks its opener and connects: lines 44 and 46
T_Urlopen(k) ==
    /\ k \in DOMAIN threads
    /\ threads[k].pc = "prepared"
    /\ LET op == IF opener.kind = NoneValue THEN DefaultOpener ELSE opener IN
       /\ opener' = op
       /\ threads' = [threads EXCEPT
              ![k].pc = "inflight",
              ![k].opener = op,
              ![k].route = RouteOf(op, socket_socket, default_proxy, site)]
    /\ UNCHANGED <<file, method, site, mpc, proxies, idx, valid_proxies,
                   default_proxy, socket_socket, run>>
    /\ UNCHANGED <<random_user_agent, user_agents>>
    /\ UNCHANGED outside_checker

\* the exchange ends, Proxy.check returns, check_proxy appends: lines 44-53
\* and 74-76
T_Return(k) ==
    /\ k \in DOMAIN threads
    /\ threads[k].pc = "inflight"
    /\ urlopen_returns(Transport(threads[k].route))
    /\ LET answer == Transport(threads[k].route)
           ret == CheckReturn(UrlopenRaises(answer), answer.seconds)
       IN /\ threads' = [threads EXCEPT ![k].pc = "ended", ![k].ret = ret]
          /\ valid_proxies' =
                 check_proxy_append(valid_proxies, threads[k].proxy, ret)
    /\ UNCHANGED <<file, method, site, mpc, proxies, idx, default_proxy,
                   socket_socket, opener, run>>
    /\ UNCHANGED <<random_user_agent, user_agents>>
    /\ UNCHANGED outside_checker

\* the program is run again on the list file it left
Rerun ==
    /\ mpc = "done"
    /\ run = 1
    /\ run' = 2
    /\ mpc' = "read"
    /\ proxies' = <<>>
    /\ threads' = <<>>
    /\ idx' = 1
    /\ valid_proxies' = <<>>
    /\ default_proxy' = NoDefaultProxy
    /\ socket_socket' = "socket"
    /\ opener' = NoOpener
    /\ UNCHANGED <<file, method, site>>
    /\ UNCHANGED <<random_user_agent, user_agents>>
    /\ UNCHANGED outside_checker

\* the main thread
Main ==
    \/ Main_Read
    \/ Main_Filter
    \/ Main_Create
    \/ Main_Start
    \/ Main_Join
    \/ Main_Write

\* the thread of threads[k]
Probe(k) ==
    \/ T_Prepare(k)
    \/ T_Urlopen(k)
    \/ T_Return(k)

Next ==
    \/ Main_Read
    \/ Main_Filter
    \/ Main_Create
    \/ Main_Start
    \/ Main_Join
    \/ Main_Write
    \/ \E k \in 1..Len(threads) : T_Prepare(k)
    \/ \E k \in 1..Len(threads) : T_Urlopen(k)
    \/ \E k \in 1..Len(threads) : T_Return(k)
    \/ Rerun

Spec == Init /\ [][Next]_vars

\* the executions in which the target URL has the scheme the proxies are
\* checked for, so that the opener of an http/https run sends the GET to a
\* proxy
InitRouted == Init /\ (lower(method) \in {"http", "https"} => scheme(site) = lower(method))

SpecRouted == InitRouted /\ [][Next]_vars

\* the executions with a probe whose target never answers: the list holds
\* candidate C, beside it candidate A, and the probes go through the
\* proxies (http with a target of that scheme, or SOCKS5)
InitStuck ==
    /\ Init
    /\ method \in {"http", "SOCKS5"}
    /\ site = "http://example.com/"
    /\ \E i \in DOMAIN readlines(file) : strip(readlines(file)[i]) = AddrC
    /\ \A i \in DOMAIN readlines(file) :
          strip(readlines(file)[i]) \in {AddrA, AddrC}

\* one execution of the program
Step == Main \/ \E k \in 1..MaxLines : Probe(k)

\* the executions that show the user agents and the runs that abort: a list
\* file of candidates A and B, a file user_agents.txt of up to two lines,
\* either mode, a method that is supported or not
InitAgents ==
    /\ file \in {f \in InputFiles :
                   \A i \in DOMAIN readlines(f) :
                       strip(readlines(f)[i]) \in {AddrA, AddrB}}
    /\ method \in {"http", "socks4", "ftp"}
    /\ site = "http://example.com/"
    /\ mpc = "read"
    /\ proxies = <<>>
    /\ threads = <<>>
    /\ idx = 1
    /\ valid_proxies = <<>>
    /\ default_proxy = NoDefaultProxy
    /\ socket_socket = "socket"
    /\ opener = NoOpener
    /\ run = 1
    /\ random_user_agent \in BOOLEAN
    /\ user_agents \in {<<>>, <<"UA1">>, <<"UA1", "UA2">>}
    /\ candidate = <<>>
    /\ verdict = <<>>
    /\ ScraperIdle

SpecAgents == InitAgents /\ [][Next]_vars

\* One execution in which threads that can take a step go on being run: the
\* main thread does not stop while it has a step to take, and while probe
\* threads have steps to take one of them takes one.
FairSpec ==
    /\ InitStuck
    /\ [][Step]_vars
    /\ WF_vars(Main)
    /\ WF_vars(\E k \in 1..MaxLines : Probe(k))

---------------------------------------------------------------------------
(* Proxy.is_valid called on its own *)

\* n times the character c
Repeat(c, n) == [i \in 1..n |-> c]

\* groups of characters c joined by sep: the first of length g, the n - 1
\* after it of length h
RECURSIVE Groups(_, _, _, _, _)
Groups(n, g, h, sep, c) ==
    IF n = 1 THEN Repeat(c, g)
    ELSE Groups(n - 1, g, h, sep, c) \o <<sep>> \o Repeat(c, h)

\* the strings is_valid is tried on: addresses with 3 to 5 groups of 0 to 4
\* digits, a port of 0 to 6 digits, the right and the wrong separators,
\* and characters before and after
Candidates ==
    {pre \o Groups(n, g, h, sep, c) \o col \o Repeat(c, q) \o post :
        pre \in {<<>>, <<" ">>, <<"a">>},
        n \in {3, 4, 5},
        g \in {0, 1, 3, 4},
        h \in {1, 3, 4},
        sep \in {".", ","},
        c \in {"9", "0", "u0663"},
        col \in {<<":">>, <<>>, <<".">>},
        q \in {0, 1, 5, 6},
        post \in {<<>>, <<"\n">>, <<"\n", "\n">>, <<" ">>, <<"a">>, <<"\n", "a">>}}

\* a Proxy has been built on one of the strings and nothing else has run
InitValidator ==
    /\ candidate \in Candidates
    /\ verdict = <<>>
    /\ file = <<>>
    /\ method \in {"http", "SOCKS5"}
    /\ site = "http://example.com/"
    /\ mpc = "none"
    /\ proxies = <<>>
    /\ threads = <<>>
    /\ idx = 1
    /\ valid_proxies = <<>>
    /\ default_proxy = NoDefaultProxy
    /\ socket_socket = "socket"
    /\ opener = NoOpener
    /\ run = 1
    /\ random_user_agent = FALSE
    /\ user_agents = <<"UA1">>
    /\ ScraperIdle

\* Proxy(method, candidate).is_valid()
Call_is_valid ==
    /\ verdict = <<>>
    /\ verdict' = <<is_valid(Proxy(method, candidate).proxy)>>
    /\ UNCHANGED <<candidate, checker_vars, scraper_vars>>

SpecValidator == InitValidator /\ [][Call_is_valid]_vars

---------------------------------------------------------------------------
(* proxyScraper.py *)

\* the constructor calls of the list literal of lines 90-103
ScraperCalls ==
    << [cls |-> "SpysMeScraper", method |-> "http", line |-> 91],
       [cls |-> "SpysMeScraper", method |-> "socks", line |-> 92],
       [cls |-> "ProxyScrapeScraper", method |-> "http", line |-> 93],
       [cls |-> "ProxyScrapeScraper", method |-> "socks4", line |-> 94],
       [cls |-> "ProxyScrapeScraper", method |-> "socks5", line |-> 95],
       [cls |-> "GeoNodeScraper", method |-> "socks", line |-> 96],
       [cls |-> "ProxyListDownloadScraper", method |-> "https", line |-> 97],
       [cls |-> "ProxyListDownloadScraper", method |-> "http", line |-> 98],
       [cls |-> "ProxyListDownloadScraper", method |-> "http", line |-> 99],
       [cls |-> "ProxyListDownloadScraper", method |-> "http", line |-> 100],
       [cls |-> "GeneralTableScraper", method |-> "https", line |-> 101],
       [cls |-> "GeneralTableScraper", method |-> "http", line |-> 102] >>

\* GeneralTableScraper has no __init__ of its own and is called with the
\* method alone, so Scraper.__init__ raises TypeError for the url_template
\* it is not given
ConstructRaises(call) == call.cls = "GeneralTableScraper"

CanBeBuilt(call) == ~ConstructRaises(call)

\* the adapters the list literal builds before a call of it raises
Built == SelectSeq(ScraperCalls, CanBeBuilt)

ScrapeMethods == {"http", "https", "socks", "socks4", "socks5", "ftp"}

\* lines 113-115
methods_of(m) == IF m = "socks" THEN {m, "socks4", "socks5"} ELSE {m}

\* line 117, as positions in the list scrapers
proxy_scrapers(m, list) ==
    LET Pick(i) == list[i].method \in methods_of(m)
    IN  SelectSeq([i \in 1..Len(list) |-> i], Pick)

\* what a source does with the one fetch of its adapter: it answers with a
\* text that holds addresses, with a text that holds none, or not at all
SourceBehaviours == {"text", "junk", "timeout"}

DigitChars == <<"1", "2", "3", "4", "5", "6", "7", "8", "9", "0">>

\* the address only the source of adapter i lists
SourceAddr(i) == <<"7", ".", "7", ".", "7", ".", "7", ":">> \o <<DigitChars[i]>>

\* response.text
ResponseText(i, behaviour) ==
    IF behaviour = "text"
    THEN <<"p", "=">> \o SourceAddr(i) \o <<",">> \o AddrB \o <<"\n">>
    ELSE <<"<", "p", ">">> \o AddrBad \o <<" ", "1", ".", "1", ":", "1">>

\* the ends of the matches of \d{1,3}(?:\.\d{1,3}){3}:\d{1,5} that start
\* at one of the positions P
RePattern(s, P) ==
    LET P1 == ReDigits(s, P, 1, 3)
        P2 == ReGroup(s, ReGroup(s, ReGroup(s, P1)))
    IN  ReDigits(s, ReChar(s, P2, ":"), 1, 5)

Max(S) == CHOOSE x \in S : \A y \in S : y <= x

\* re.findall(pattern, s) from position i on: the leftmost match, taken as
\* long as the greedy port allows, then the matches after it
RECURSIVE findall(_, _)
findall(s, i) ==
    IF i > Len(s) THEN <<>>
    ELSE LET ends == RePattern(s, {i}) IN
         IF ends = {} THEN findall(s, i + 1)
         ELSE <<SubSeq(s, i, Max(ends) - 1)>> \o findall(s, Max(ends))

\* "\n".join(list)
RECURSIVE join(_)
join(list) ==
    IF list = <<>> THEN <<>>
    ELSE IF Len(list) = 1 THEN list[1]
    ELSE list[1] \o <<"\n">> \o join(Tail(list))

\* results of gather, in the order of the tasks, extended into one list
RECURSIVE extend_all(_)
extend_all(ts) ==
    IF ts = <<>> THEN <<>> ELSE Head(ts).result \o extend_all(Tail(ts))

CheckerIdle ==
    /\ file = <<>>
    /\ method = "http"
    /\ site = "http://example.com/"
    /\ mpc = "none"
    /\ proxies = <<>>
    /\ threads = <<>>
    /\ idx = 1
    /\ valid_proxies = <<>>
    /\ default_proxy = NoDefaultProxy
    /\ socket_socket = "socket"
    /\ opener = NoOpener
    /\ run = 1
    /\ random_user_agent = FALSE
    /\ user_agents = <<"UA1">>

\* Either the script is started, and its list of adapters is still to be
\* built, or scrape is called with the list of the adapters that can be
\* built. The output file holds an earlier result. A source that the method
\* does not select is not looked at.
InitScraper ==
    /\ scrape_method \in ScrapeMethods
    /\ output = AddrC
    /\ \/ spc = "load" /\ scrapers = <<>> /\ sources = <<>>
       \/ /\ spc = "scrape"
          /\ scrapers = Built
          /\ sources \in [1..Len(Built) -> SourceBehaviours]
          /\ \A i \in 1..Len(Built) :
                Built[i].method \notin methods_of(scrape_method)
                    => sources[i] = "text"
    /\ tasks = <<>>
    /\ scraped = <<>>
    /\ CheckerIdle
    /\ candidate = <<>>
    /\ verdict = <<>>

\* lines 90-103: the list literal is evaluated when the script starts
S_Load ==
    /\ spc = "load"
    /\ IF \E i \in DOMAIN ScraperCalls : ConstructRaises(ScraperCalls[i])
       THEN spc' = "raised" /\ UNCHANGED scrapers
       ELSE spc' = "scrape" /\ scrapers' = ScraperCalls
    /\ UNCHANGED <<scrape_method, output, sources, tasks, scraped>>
    /\ UNCHANGED <<checker_vars, validator_vars>>

\* lines 112-127: the adapters of the method are picked and one coroutine
\* per adapter is made
S_Select ==
    /\ spc = "scrape"
    /\ LET picked == proxy_scrapers(scrape_method, scrapers) IN
       IF picked = <<>>
       THEN spc' = "raised" /\ UNCHANGED tasks
       ELSE /\ spc' = "gather"
            /\ tasks' = [j \in 1..Len(picked) |->
                           [scraper |-> picked[j], pc |-> "pending",
                            result |-> <<>>]]
    /\ scraped' = <<>>
    /\ UNCHANGED <<scrape_method, output, sources, scrapers>>
    /\ UNCHANGED <<checker_vars, validator_vars>>

\* Scraper.scrape, lines 27-31: the fetch of the adapter ends, with a
\* response whose text is scanned or with the exception of the client
A_Scrape(j) ==
    /\ spc = "gather"
    /\ j \in DOMAIN tasks
    /\ tasks[j].pc = "pending"
    /\ LET i == tasks[j].scraper IN
       IF sources[i] = "timeout"
       THEN tasks' = [tasks EXCEPT ![j].pc = "raised"]
       ELSE tasks' = [tasks EXCEPT
                ![j].pc = "done",
                ![j].result = findall(ResponseText(i, sources[i]), 1)]
    /\ UNCHANGED <<scrape_method, output, sources, spc, scrapers, scraped>>
    /\ UNCHANGED <<checker_vars, validator_vars>>

\* lines 129-131: gather hands the first exception of a task to scrape,
\* which ends with it, and the tasks still pending are cancelled when the
\* event loop is closed; with every task done the results are put together
S_Gather ==
    /\ spc = "gather"
    /\ \/ /\ \E j \in DOMAIN tasks : tasks[j].pc = "raised"
          /\ spc' = "raised"
          /\ tasks' = [j \in DOMAIN tasks |->
                         IF tasks[j].pc = "pending"
                         THEN [tasks[j] EXCEPT !.pc = "cancelled"]
                         ELSE tasks[j]]
          /\ UNCHANGED scraped
       \/ /\ \A j \in DOMAIN tasks : tasks[j].pc = "done"
          /\ spc' = "write"
          /\ scraped' = extend_all(tasks)
          /\ UNCHANGED tasks
    /\ UNCHANGED <<scrape_method, output, sources, scrapers>>
    /\ UNCHANGED <<checker_vars, validator_vars>>

\* lines 133-137
S_Write ==
    /\ spc = "write"
    /\ output' = join(scraped)
    /\ spc' = "done"
    /\ UNCHANGED <<scrape_method, sources, scrapers, tasks, scraped>>
    /\ UNCHANGED <<checker_vars, validator_vars>>

NextScraper ==
    \/ S_Load
    \/ S_Select
    \/ \E j \in 1..Len(tasks) : A_Scrape(j)
    \/ S_Gather
    \/ S_Write

SpecScraper == InitScraper /\ [][NextScraper]_vars

---------------------------------------------------------------------------
(* Vocabulary of the properties *)

Range(q) == {q[i] : i \in DOMAIN q}

\* the probe of threads[k] has made its connection
Connected(k) == threads[k].pc \in {"inflight", "ended"}

Ended(k) == threads[k].pc = "ended"

AllEnded == \A k \in DOMAIN threads : Ended(k)

SocksRun == lower(method) \in {"socks4", "socks5"}

HttpRun == lower(method) \in {"http", "https"}

\* host and port of the candidate itself
OwnHost(k) == split(threads[k].proxy.proxy, ":")[1]

OwnPort(k) == int(split(threads[k].proxy.proxy, ":")[2])

\* the addresses on the lines of a list file
Entries(f) == {strip(l) : l \in Range(readlines(f))}

\* the network's answer to a GET sent through the candidate's own proxy
OwnAnswer(x) ==
    LET parts == split(x.proxy, ":") IN
    Transport([via |-> "proxy", host |-> parts[1], port |-> int(parts[2])])

OwnProxySucceeds(x) == UrlopenRaises(OwnAnswer(x)) = NoneValue

\* the survivors when the probes run one after the other, each from
\* T_Prepare to T_Return with no other probe in between
SerialSurvivors ==
    {x \in Range(proxies) :
        UrlopenRaises(Transport(
            IF x.method \in {"socks4", "socks5"}
            THEN RouteOf(DefaultOpener, "socksocket", SocksDefault(x), site)
            ELSE RouteOf(ProxyOpener(x), "socket", NoDefaultProxy, site)))
        = NoneValue}

---------------------------------------------------------------------------
(* C1 *)

\* C1: in a socks4/socks5 run, the connection of the probe for a candidate
\* is tunnelled through that candidate's own host and port, never through
\* the host and port of another candidate.
C1_SocksProbeUsesOwnTarget ==
    SocksRun =>
        \A k \in DOMAIN threads :
            Connected(k) =>
                /\ threads[k].route.via \in {"SOCKS4", "SOCKS5"}
                /\ threads[k].route.host = OwnHost(k)
                /\ threads[k].route.port = OwnPort(k)

---------------------------------------------------------------------------
(* C2 *)

\* C2: in an http/https run, the GET of the probe for a candidate is sent
\* through the opener built for that candidate, never through the opener a
\* sibling probe installed.
C2_HttpProbeUsesOwnOpener ==
    HttpRun =>
        \A k \in DOMAIN threads :
            Connected(k) => threads[k].opener = ProxyOpener(threads[k].proxy)

---------------------------------------------------------------------------
(* C3 *)

\* C3: with each candidate's own proxy giving a fixed result, the list that
\* check_proxies writes holds exactly the valid candidates whose own proxy
\* succeeds: no failed candidate is in it and no successful one is missing.
C3_SurvivorsAreOwnSuccesses ==
    mpc = "done" =>
        Entries(file) = {x.proxy : x \in {y \in Range(proxies) : OwnProxySucceeds(y)}}

---------------------------------------------------------------------------
(* C4 *)

\* C4: a failure raised while a candidate is probed becomes the outcome
\* (False, 0, error) of that candidate and nothing else: check_proxies is
\* not ended by it, every thread is still started and joined, and every
\* probe that succeeded is in the list written.
C4_ProbeFailureIsContained ==
    /\ \A k \in DOMAIN threads :
          LET raised == UrlopenRaises(Transport(threads[k].route)) IN
          (Ended(k) /\ raised # NoneValue) =>
              /\ threads[k].ret = <<FALSE, 0, raised>>
              /\ mpc # "raised"
    /\ mpc = "done" =>
          /\ Len(threads) = Len(proxies)
          /\ AllEnded
          /\ \A k \in DOMAIN threads :
                threads[k].ret[1] => threads[k].proxy.proxy \in Entries(file)
          /\ Len(readlines(file)) =
                Cardinality({k \in DOMAIN threads : threads[k].ret[1]})

\* a run is over in which one probe failed and a sibling succeeded
C4_Witness ==
    /\ mpc = "done"
    /\ \E j, k \in DOMAIN threads :
          /\ ~threads[j].ret[1]
          /\ threads[j].ret[3] = "ConnectionRefusedError"
          /\ threads[k].ret[1]
          /\ threads[k].proxy.proxy \in Entries(file)

---------------------------------------------------------------------------
(* C5 *)

\* C5: check_proxies writes the list only when every probe thread it
\* created has been started and has ended: while the main thread is at the
\* write or past it, there is one thread per valid candidate and each has
\* produced its outcome; and the file changes in no other step.
C5_WriteAfterEveryProbe ==
    /\ [](mpc \in {"write", "done"} =>
            /\ Len(threads) = Len(proxies)
            /\ \A k \in DOMAIN threads : threads[k].pc = "ended")
    /\ [][file' # file => (mpc = "write" /\ AllEnded)]_vars

\* the list has been written after two probes, one that succeeded and one
\* that waited for its timeout
C5_Witness ==
    /\ mpc = "done"
    /\ Len(threads) = 2
    /\ \E j, k \in DOMAIN threads :
          /\ threads[j].ret[3] = "timeout"
          /\ threads[k].ret[1]
    /\ file = written(valid_proxies)
    /\ file # <<>>

---------------------------------------------------------------------------
(* C6 *)

\* the network answered the GET of threads[k] with an HTTP response
Answered(k) == Transport(threads[k].route).error = NoneValue

Status(k) == Transport(threads[k].route).status

\* C6 as the specification states it: a probe succeeds whenever its request
\* ends with an HTTP response, whatever the status code, so that a 4xx or
\* 5xx response gives (True, elapsed, None) and the candidate is in the
\* list written; only a failure of the transport gives a failed outcome.
C6_AnyResponseSucceeds ==
    \A k \in DOMAIN threads :
        Ended(k) =>
            /\ Answered(k) =>
                  /\ threads[k].ret[1]
                  /\ threads[k].ret[3] = NoneValue
                  /\ mpc = "done" => threads[k].proxy.proxy \in Entries(file)
            /\ ~Answered(k) => ~threads[k].ret[1]

\* C6 (amended): a probe succeeds exactly when urlopen returns without
\* raising, that is when the request ends with a 2xx response, and then the
\* outcome is (True, elapsed, None) and the candidate is in the list written;
\* a response with any other status makes urlopen raise HTTPError, which is
\* caught like a failure of the transport and gives (False, 0, error).
C6_SuccessIffUrlopenReturns ==
    /\ \A k \in DOMAIN threads :
          Ended(k) =>
              IF Answered(k) /\ 200 <= Status(k) /\ Status(k) < 300
              THEN /\ threads[k].ret[1]
                   /\ threads[k].ret[2] = Transport(threads[k].route).seconds
                   /\ threads[k].ret[3] = NoneValue
              ELSE threads[k].ret =
                      <<FALSE, 0, IF Answered(k) THEN "HTTPError"
                                  ELSE Transport(threads[k].route).error>>
    /\ mpc = "done" =>
          Entries(file) =
              {threads[k].proxy.proxy : k \in
                  {j \in DOMAIN threads :
                      Answered(j) /\ 200 <= Status(j) /\ Status(j) < 300}}

\* a run is over in which a probe got a 404 response through its proxy
C6_Witness ==
    /\ mpc = "done"
    /\ \E k \in DOMAIN threads :
          /\ threads[k].route.via = "proxy"
          /\ Answered(k)
          /\ Status(k) = 404
          /\ threads[k].ret = <<FALSE, 0, "HTTPError">>
          /\ threads[k].proxy.proxy \notin Entries(file)

---------------------------------------------------------------------------
(* C7 *)

Running(k) ==
    k \in DOMAIN threads /\ threads[k].pc \in {"started", "prepared", "inflight"}

\* C7: a probe whose target never answers ends as the failed outcome
\* (False, 0, timeout); no probe thread ever waits for another one (a thread
\* that has been started and has not ended can always take its next step);
\* and check_proxies, once it has its candidates, reaches its end with every
\* thread ended and the list written.
C7_StuckProbeDelaysNobody ==
    /\ [](\A k \in DOMAIN threads :
            (Ended(k) /\ Transport(threads[k].route).error = "timeout")
                => threads[k].ret = <<FALSE, 0, "timeout">>)
    /\ [](\A k \in 1..MaxLines : Running(k) => ENABLED Probe(k))
    /\ (mpc = "create") ~>
          (mpc = "done" /\ AllEnded /\ file = written(valid_proxies))

\* a probe has ended while the sibling started before it still waits for a
\* target that never answers
C7_Witness ==
    /\ mpc = "join"
    /\ \E j, k \in DOMAIN threads :
          /\ j < k
          /\ threads[j].pc = "inflight"
          /\ Transport(threads[j].route).error = "timeout"
          /\ threads[k].pc = "ended"
          /\ threads[k].ret[1]

---------------------------------------------------------------------------
(* C8 *)

\* C8: the surviving set is the same for every order in which the
\* candidates are dispatched and every order in which the probe threads are
\* scheduled: it is the set the probes give when run one after the other.
C8_SurvivorsIndependentOfSchedule ==
    mpc = "done" => Range(valid_proxies) = SerialSurvivors

---------------------------------------------------------------------------
(* C9 *)

\* C9: running check_proxies again on the list the first run wrote gives
\* the same surviving set. The candidates of a later run are the lines the
\* run before it wrote, all of them valid.
C9_SecondRunKeepsSurvivors ==
    (run = 2 /\ mpc = "done") =>
        Entries(file) = {x.proxy : x \in Range(proxies)}

---------------------------------------------------------------------------
(* C10 *)

\* C10: the list written has no more entries than the list read has lines,
\* every entry is a line of the list read, stripped, and is accepted by
\* Proxy.is_valid; and no thread is ever created for a string that
\* Proxy.is_valid rejects.
C10_OutputWithinValidInput ==
    /\ [][(mpc = "write" /\ mpc' = "done") =>
            /\ Len(readlines(file')) <= Len(readlines(file))
            /\ Entries(file') \subseteq Entries(file)
            /\ \A e \in Entries(file') : is_valid(e)]_vars
    /\ [](\A k \in DOMAIN threads : is_valid(threads[k].proxy.proxy))

\* a list with a rejected line and a line with blanks around the address
\* has been read, the one thread created for it has ended and the list is
\* about to be written
C10_Witness ==
    /\ mpc = "write"
    /\ Len(readlines(file)) = 2
    /\ \E l \in Range(readlines(file)) : ~is_valid(strip(l))
    /\ \E l \in Range(readlines(file)) : strip(l) # l /\ SubSeq(l, 1, Len(l) - 1) # strip(l)
    /\ Len(threads) = 1
    /\ AllEnded

---------------------------------------------------------------------------
(* C11 *)

\* C11: when the method selected is not http, https, socks4 or socks5,
\* check_proxies ends with the error of Proxy.__init__ in its first step,
\* whatever the list file holds (nothing, or only malformed lines): it never
\* gets past the reading of the list and no thread is ever created.
C11_UnsupportedMethodFailsFast ==
    ProxyInitRaises(method) =>
        /\ mpc \in {"read", "raised"}
        /\ threads = <<>>
        /\ opener = NoOpener
        /\ default_proxy = NoDefaultProxy

---------------------------------------------------------------------------
(* C12 *)

\* a digit is any character \d takes for one
AllDigits(s) == \A i \in DOMAIN s : s[i] \in RegexDigit

\* four groups of 1 to 3 digits joined by dots, ':' and 1 to 5 digits, with
\* nothing before or after
WellFormed(s) ==
    LET halves == split(s, ":") IN
    /\ Len(halves) = 2
    /\ Len(halves[2]) \in 1..5
    /\ AllDigits(halves[2])
    /\ LET groups == split(halves[1], ".") IN
       /\ Len(groups) = 4
       /\ \A i \in 1..4 : Len(groups[i]) \in 1..3 /\ AllDigits(groups[i])

\* C12: Proxy.is_valid returns true for exactly the well-formed strings (so
\* for 999.999.999.999:99999) and false for every other string: one with a
\* newline or other characters after the port, with fewer than four groups,
\* or with no port.
C12_IsValidIffWellFormed ==
    verdict # <<>> => (verdict[1] <=> WellFormed(candidate))

---------------------------------------------------------------------------
(* C13 *)

\* the addresses in the texts of the sources whose fetch succeeds
CollectedBySucceeded ==
    UNION {Range(findall(ResponseText(tasks[j].scraper,
                                      sources[tasks[j].scraper]), 1)) :
             j \in {t \in DOMAIN tasks : sources[tasks[t].scraper] # "timeout"}}

---------------------------------------------------------------------------
(* C14 *)

\* how many times x is in the list q
Count(q, x) == Cardinality({i \in DOMAIN q : q[i] = x})

\* C14: for every interleaving of the probe threads, once all threads are
\* joined valid_proxies holds each candidate once per probe of it that
\* returned success: no append is lost and none is made twice.
C14_AppendsNeitherLostNorDoubled ==
    mpc \in {"write", "done"} =>
        /\ Len(valid_proxies) =
              Cardinality({k \in DOMAIN threads : threads[k].ret[1]})
        /\ \A x \in Range(proxies) :
              Count(valid_proxies, x) =
                  Cardinality({k \in DOMAIN threads :
                                  threads[k].proxy = x /\ threads[k].ret[1]})

\* two probes have succeeded, the one started second has appended first,
\* and all threads are joined
C14_Witness ==
    /\ mpc = "write"
    /\ Len(threads) = 2
    /\ threads[1].ret[1] /\ threads[2].ret[1]
    /\ threads[1].proxy # threads[2].proxy
    /\ valid_proxies = <<threads[2].proxy, threads[1].proxy>>

---------------------------------------------------------------------------
(* C15 *)

\* a limit on the probes in flight that is below the number of candidates
\* of the longest list
ConcurrencyLimit == MaxLines - 1

\* the probes in flight: threads started and not yet ended
InFlight == {k \in DOMAIN threads : Running(k)}

\* C15: at every moment of a run of check_proxies the number of probes in
\* flight is at most the concurrency limit, however many candidates the
\* list holds.
C15_InFlightWithinLimit == Cardinality(InFlight) <= ConcurrencyLimit

---------------------------------------------------------------------------
(* C16 *)

\* C16: in an http/https run with one probe only, so that no sibling can
\* interfere, a probe that reports success has sent its GET through the
\* candidate proxy, whatever the target URL is: also when the scheme of the
\* target is not the method selected, the request does not go direct.
C16_LoneHttpSuccessWentThroughProxy ==
    (HttpRun /\ Len(threads) = 1 /\ Ended(1) /\ threads[1].ret[1]) =>
        /\ threads[1].route.via = "proxy"
        /\ threads[1].route.host = OwnHost(1)
        /\ threads[1].route.port = OwnPort(1)

---------------------------------------------------------------------------
(* C17 *)

\* the lines of a list file that is_valid accepts once stripped, in order
ValidLines(f) ==
    LET stripped == [i \in DOMAIN readlines(f) |-> strip(readlines(f)[i])]
    IN  SelectSeq(stripped, is_valid)

\* C17: in one run every valid line of the list, duplicates included, is
\* probed exactly once. Once the threads are created there is one per valid
\* line, in the order of the lines; no thread calls Proxy.check more than
\* once, and a thread that has ended has called it once and never runs
\* again, so a failure is not retried; at the write every thread has been
\* started and joined; and an address is in the list written as many times
\* as probes of it succeeded.
C17_OneProbePerValidLine ==
    /\ [](mpc \in {"start", "join", "write"} =>
            [k \in DOMAIN threads |-> threads[k].proxy.proxy] = ValidLines(file))
    /\ [](\A k \in DOMAIN threads :
            /\ threads[k].calls <= 1
            /\ Ended(k) => threads[k].calls = 1)
    /\ [][\A k \in DOMAIN threads :
            (Ended(k) /\ run' = run) => threads'[k] = threads[k]]_vars
    /\ [](mpc = "write" => (idx = 1 /\ AllEnded))
    /\ [](mpc = "done" =>
            \A k \in DOMAIN threads :
                Count(readlines(file), threads[k].proxy.proxy \o <<"\n">>) =
                    Cardinality({j \in DOMAIN threads :
                        /\ threads[j].proxy = threads[k].proxy
                        /\ threads[j].ret[1]}))

\* a list with the same address on two lines has been checked, both probes
\* succeeded and the address is written twice
C17_Witness ==
    /\ mpc = "done"
    /\ Len(threads) = 2
    /\ threads[1].proxy = threads[2].proxy
    /\ threads[1].ret[1] /\ threads[2].ret[1]
    /\ threads[1].calls = 1 /\ threads[2].calls = 1
    /\ Len(readlines(file)) = 2
    /\ readlines(file)[1] = readlines(file)[2]

---------------------------------------------------------------------------
(* C18 *)

\* C18: with the random-user-agent mode off, every probe of a run is given
\* the same user agent, the one configured; a probe gets a random choice of
\* its own from the pool only with the mode on.
C18_FixedUserAgentUnlessRandom ==
    ~random_user_agent =>
        \A j, k \in DOMAIN threads :
            (threads[j].calls = 1 /\ threads[k].calls = 1) =>
                threads[j].check_user_agent = threads[k].check_user_agent

---------------------------------------------------------------------------
(* C19 *)

\* C19: the list file is altered by one step only, the write that follows
\* the last join, when every thread created has ended; a run that aborts
\* (an unsupported method while the candidates are built, an error while
\* the threads are made) does so with the file as it was and takes no step
\* after; and the write of a run that completes leaves in the file the
\* surviving candidates, one per line, and nothing else.
C19_FileUntouchedUntilJoined ==
    /\ [][file' # file =>
            /\ mpc = "write" /\ mpc' = "done"
            /\ idx = 1
            /\ Len(threads) = Len(proxies)
            /\ AllEnded]_vars
    /\ [][mpc' = "raised" => file' = file]_vars
    /\ [][mpc # "raised"]_vars
    /\ [][(mpc = "write" /\ mpc' = "done") =>
            readlines(file') =
                [k \in DOMAIN valid_proxies |-> valid_proxies[k].proxy \o <<"\n">>]]_vars

\* a run has aborted while it made its threads, with candidates found in a
\* list file that is still there
C19_Witness ==
    /\ mpc = "raised"
    /\ user_agents = <<>>
    /\ proxies # <<>>
    /\ Len(readlines(file)) = 2

=============================================================================
